---- MODULE Spec2Model ----
(***************************************************************************)
(* Model of the BTC "Asian hours" backtest (src/run_backtest.py).          *)
(*                                                                         *)
(* Prices are integers (ticks).  The input closes are multiples of 200 so  *)
(* that the 0.5% stop distance entry_price * STOP_PCT is an exact integer, *)
(* and ATR values are even so that a median of two of them is exact.       *)
(* Timestamps are whole hours since an epoch; the hour of day is t % 24.   *)
(* A position's size is kept in units of 1 / SIZE_DEN, which holds         *)
(* risk_amount / unit_risk exactly for the unit risks of the input closes. *)
(***************************************************************************)
EXTENDS Integers, Sequences, FiniteSets, TLC

\* ------------------------------------------------------------------------
\* Strategy parameters (src/run_backtest.py:20-25)
\* ------------------------------------------------------------------------
INITIAL_EQ == 100000
\* RISK_PCT_INIT = 0.05, kept as a percentage
RISK_PCT_INIT == 5
\* STOP_PCT = 0.005 = 1 / STOP_PCT_DEN
STOP_PCT_DEN == 200
ATR_MULT == 3
ASIA_HRS == 0..11
US_HRS == 15..20

\* RSI thresholds of the four entry conditions (src/run_backtest.py:101-104)
RSI_MR_LONG == 30
RSI_MR_SHORT == 70
RSI_BO_LONG == 60
RSI_BO_SHORT == 40

\* Offset of Asia/Singapore from UTC, in hours (src/run_backtest.py:83)
SGT_OFFSET == 8

\* pandas' missing value: every ordered comparison with it is False
NaN == -1000000
\* Python's None, for open_trade and the loop row
None == <<>>
\* Python's None for exit_price (src/run_backtest.py:126): no exit on this row
NoExit == -2000000

\* ------------------------------------------------------------------------
\* Bounds of the model
\* ------------------------------------------------------------------------
\* number of bars of the input series
MaxBars == 3

\* ------------------------------------------------------------------------
\* NaN-aware comparisons (float semantics of <, >, <=, >=)
\* ------------------------------------------------------------------------
isna(x) == x = NaN
Lt(a, b) == ~isna(a) /\ ~isna(b) /\ a < b
Gt(a, b) == ~isna(a) /\ ~isna(b) /\ a > b
Le(a, b) == ~isna(a) /\ ~isna(b) /\ a <= b
Ge(a, b) == ~isna(a) /\ ~isna(b) /\ a >= b

\* ------------------------------------------------------------------------
\* The input: rows of the enriched frame, in the order sort_index leaves
\* them (non-decreasing timestamps; equal timestamps are not rejected).
\* ------------------------------------------------------------------------
\* closes of the input bars (unit risk 1 and 16: sizes 5000 and 312.5)
Closes == {200, 3200}
\* (high - close, close - low) of the input bars
PriceShapes == {<<0, 0>>, <<12, 1>>, <<1, 12>>, <<12, 0>>, <<0, 12>>}
\* hours between one bar and the next (0: a duplicated timestamp)
Deltas == {0, 1, 5}
\* local (GMT+8) timestamp of the first bar: 18:00, i.e. 10:00 UTC
StartTimes == {18}

\* position of the close against the Bollinger bands / the 3-bar levels
\* <<lower, upper>> offsets from the close
Below == <<10, 30>>
Inside == <<-10, 10>>
Above == <<-30, -10>>

\* indicator columns of a row: <<band position, breakout position, rsi14, atr20>>
IndicatorShapes ==
    { <<Inside, Inside, 50, 4>>,
      <<Below, Inside, 20, 4>>,
      <<Above, Inside, 80, 4>>,
      <<Below, Below, 20, 4>>,
      <<Above, Above, 80, 4>>,
      <<Below, Inside, 20, 2>>,
      <<Below, Below, 35, 4>>,
      <<Above, Above, 65, 4>>,
      <<Below, Above, NaN, 4>>,
      <<Inside, Inside, 35, NaN>> }

MkRow(t, c, p, s) ==
    [ Index |-> t, close |-> c, high |-> c + p[1], low |-> c - p[2],
      sma20 |-> c + (s[1][1] + s[1][2]) \div 2,
      lower_band |-> c + s[1][1], upper_band |-> c + s[1][2],
      low_3h |-> c + s[2][1], high_3h |-> c + s[2][2],
      rsi14 |-> s[3], atr20 |-> s[4] ]

\* a row of the warm-up period: no window is populated yet
WarmupRow(t, c, p) ==
    [ Index |-> t, close |-> c, high |-> c + p[1], low |-> c - p[2],
      sma20 |-> NaN, lower_band |-> NaN, upper_band |-> NaN,
      low_3h |-> NaN, high_3h |-> NaN, rsi14 |-> NaN, atr20 |-> NaN ]

\* rows with a close of zero, below the bands and the 3-bar levels: the stop
\* distance of an entry on them (long by mean reversion, short by breakout)
\* is zero
ZeroShapes == { <<Below, Below, 20, 4>>, <<Below, Below, 35, 4>> }
ZeroRowsAt(t) == { MkRow(t, 0, p, s) : p \in { <<0, 0>>, <<12, 0>> }, s \in ZeroShapes }

RowsAt(t) ==
    { MkRow(t, c, p, s) : c \in Closes, p \in PriceShapes, s \in IndicatorShapes }
    \cup { WarmupRow(t, c, <<0, 0>>) : c \in Closes }

\* thresholds run_backtest is called with
AtrMeds == {2, NaN}

VARIABLES
    atr_med,      \* the atr_med argument of run_backtest
    i,            \* number of rows the loop has consumed
    r,            \* the loop's current row (None before the first)
    open_trade,   \* None or the open position
    trade_log,    \* closed trades, in the order appended
    pnl_history,  \* pnl of the closed trades
    equity,       \* running equity
    df,           \* the enriched frame main passes on (<<>>: rows are streamed)
    csv,          \* the rows of the file load_data reads (<<>>: not modelled)
    result,       \* None, or what run_backtest returned
    TELEGRAM_BOT_TOKEN,  \* telegram_bot: the bot token of the environment
    TELEGRAM_CHAT_ID,    \* telegram_bot: the chat id of the environment
    call,         \* None, or the last call into telegram_bot and its outcome
    results_dir,  \* the files of RESULTS_DIR (None: the file does not exist)
    fetched       \* None, or the last fetch of btc_trading_app and what it did

vars == <<atr_med, i, r, open_trade, trade_log, pnl_history, equity, df, csv, result,
          TELEGRAM_BOT_TOKEN, TELEGRAM_CHAT_ID, call, results_dir, fetched>>

\* the variables of run_backtest.py and those of telegram_bot.py
engine == <<atr_med, i, r, open_trade, trade_log, pnl_history, equity, df, csv, result>>
bot == <<TELEGRAM_BOT_TOKEN, TELEGRAM_CHAT_ID, call>>

\* run_backtest.py does not import telegram_bot: nothing is configured or sent
NoBot == TELEGRAM_BOT_TOKEN = "" /\ TELEGRAM_CHAT_ID = "" /\ call = None

\* RESULTS_DIR before the first run of main
NoFiles == [ metrics_json |-> None, trade_log_csv |-> None, conditions_csv |-> None,
             indicators_csv |-> None, equity_curve_ts_csv |-> None ]

\* ------------------------------------------------------------------------
\* run_backtest: the per-row body of the loop
\* ------------------------------------------------------------------------
\* df_bt.index: Asia/Singapore wall time converted to naive UTC
TzConvert(t) == t - SGT_OFFSET

hour(t) == t % 24

risk_amount == (INITIAL_EQ * RISK_PCT_INIT) \div 100

Skipped(row) == isna(row.sma20) \/ isna(row.atr20)

long_mr(row) == Lt(row.close, row.lower_band) /\ Lt(row.rsi14, RSI_MR_LONG)
short_mr(row) == Gt(row.close, row.upper_band) /\ Gt(row.rsi14, RSI_MR_SHORT)
long_bo(row) == Gt(row.close, row.high_3h) /\ Gt(row.rsi14, RSI_BO_LONG)
short_bo(row) == Lt(row.close, row.low_3h) /\ Lt(row.rsi14, RSI_BO_SHORT)

AnySignal(row) == long_mr(row) \/ long_bo(row) \/ short_mr(row) \/ short_bo(row)

\* EntryGate entering while a position is open (the Flat test dropped)
EntryGate_NoFlatTest(ot, row, med) ==
    hour(row.Index) \in ASIA_HRS /\ Gt(row.atr20, med)

\* EntryGate with the volatility filter non-strict
EntryGate_AtrGe(ot, row, med) ==
    ot = None /\ hour(row.Index) \in ASIA_HRS /\ Ge(row.atr20, med)

EntryGate(ot, row, med) ==
    ot = None /\ hour(row.Index) \in ASIA_HRS /\ Gt(row.atr20, med)

\* EntrySide evaluating the short conditions first
EntrySide_ShortFirst(row) ==
    IF short_mr(row) \/ short_bo(row) THEN "short" ELSE "long"

EntrySide(row) == IF long_mr(row) \/ long_bo(row) THEN "long" ELSE "short"

Abs(x) == IF x < 0 THEN -x ELSE x

\* denominator of the fixed-point size: size = n / SIZE_DEN units
SIZE_DEN == 2

\* int(size): the fraction dropped (size >= 0)
IntSize(size) == size \div SIZE_DEN

\* NewTrade with the stop of a short below its entry
NewTrade_ShortStopBelow(row) ==
    LET side == EntrySide(row)
        entry_price == row.close
        stop_price == IF side = "long"
                      THEN (entry_price * (STOP_PCT_DEN - 1)) \div STOP_PCT_DEN
                      ELSE (entry_price * (STOP_PCT_DEN - 1)) \div STOP_PCT_DEN
        target_price == IF side = "long"
                        THEN entry_price + ATR_MULT * row.atr20
                        ELSE entry_price - ATR_MULT * row.atr20
        unit_risk == Abs(entry_price - stop_price)
        size == IF unit_risk > 0 THEN (SIZE_DEN * risk_amount) \div unit_risk ELSE 0
    IN [ side |-> side, entry_time |-> row.Index, entry_price |-> entry_price,
         stop |-> stop_price, target |-> target_price, size |-> size ]

\* NewTrade sizing on the distance to the target
NewTrade_RiskToTarget(row) ==
    LET side == EntrySide(row)
        entry_price == row.close
        stop_price == IF side = "long"
                      THEN (entry_price * (STOP_PCT_DEN - 1)) \div STOP_PCT_DEN
                      ELSE (entry_price * (STOP_PCT_DEN + 1)) \div STOP_PCT_DEN
        target_price == IF side = "long"
                        THEN entry_price + ATR_MULT * row.atr20
                        ELSE entry_price - ATR_MULT * row.atr20
        unit_risk == Abs(entry_price - target_price)
        size == IF unit_risk > 0 THEN (SIZE_DEN * risk_amount) \div unit_risk ELSE 0
    IN [ side |-> side, entry_time |-> row.Index, entry_price |-> entry_price,
         stop |-> stop_price, target |-> target_price, size |-> size ]

\* NewTrade sizing a zero stop distance as a distance of one
NewTrade_UnitRiskFloor(row) ==
    LET side == EntrySide(row)
        entry_price == row.close
        stop_price == IF side = "long"
                      THEN (entry_price * (STOP_PCT_DEN - 1)) \div STOP_PCT_DEN
                      ELSE (entry_price * (STOP_PCT_DEN + 1)) \div STOP_PCT_DEN
        target_price == IF side = "long"
                        THEN entry_price + ATR_MULT * row.atr20
                        ELSE entry_price - ATR_MULT * row.atr20
        unit_risk == Abs(entry_price - stop_price)
        size == IF unit_risk > 0 THEN (SIZE_DEN * risk_amount) \div unit_risk
                ELSE SIZE_DEN * risk_amount
    IN [ side |-> side, entry_time |-> row.Index, entry_price |-> entry_price,
         stop |-> stop_price, target |-> target_price, size |-> size ]

NewTrade(row) ==
    LET side == EntrySide(row)
        entry_price == row.close
        stop_price == IF side = "long"
                      THEN (entry_price * (STOP_PCT_DEN - 1)) \div STOP_PCT_DEN
                      ELSE (entry_price * (STOP_PCT_DEN + 1)) \div STOP_PCT_DEN
        target_price == IF side = "long"
                        THEN entry_price + ATR_MULT * row.atr20
                        ELSE entry_price - ATR_MULT * row.atr20
        unit_risk == Abs(entry_price - stop_price)
        size == IF unit_risk > 0 THEN (SIZE_DEN * risk_amount) \div unit_risk ELSE 0
    IN [ side |-> side, entry_time |-> row.Index, entry_price |-> entry_price,
         stop |-> stop_price, target |-> target_price, size |-> size ]

SessionExit(row) ==
    hour(row.Index) \in US_HRS /\ hour(row.Index) \notin ASIA_HRS

\* ExitPrice filling a stop at the extreme of the bar
ExitPrice_StopAtExtreme(ot, row) ==
    IF SessionExit(row) THEN row.close
    ELSE IF ot.side = "long"
         THEN IF Le(row.low, ot.stop) THEN row.low
              ELSE IF Ge(row.high, ot.target) THEN ot.target
              ELSE NoExit
         ELSE IF Ge(row.high, ot.stop) THEN row.high
              ELSE IF Le(row.low, ot.target) THEN ot.target
              ELSE NoExit

\* ExitPrice checking the target before the stop
ExitPrice_TargetFirst(ot, row) ==
    IF SessionExit(row) THEN row.close
    ELSE IF ot.side = "long"
         THEN IF Ge(row.high, ot.target) THEN ot.target
              ELSE IF Le(row.low, ot.stop) THEN ot.stop
              ELSE NoExit
         ELSE IF Le(row.low, ot.target) THEN ot.target
              ELSE IF Ge(row.high, ot.stop) THEN ot.stop
              ELSE NoExit

\* ExitPrice checking stop and target before the session exit
ExitPrice_SessionLast(ot, row) ==
    IF ot.side = "long" /\ Le(row.low, ot.stop) THEN ot.stop
    ELSE IF ot.side = "long" /\ Ge(row.high, ot.target) THEN ot.target
    ELSE IF ot.side = "short" /\ Ge(row.high, ot.stop) THEN ot.stop
    ELSE IF ot.side = "short" /\ Le(row.low, ot.target) THEN ot.target
    ELSE IF SessionExit(row) THEN row.close
    ELSE NoExit

\* ExitPrice without the session exit
ExitPrice_NoSession(ot, row) ==
    IF ot.side = "long"
    THEN IF Le(row.low, ot.stop) THEN ot.stop
         ELSE IF Ge(row.high, ot.target) THEN ot.target
         ELSE NoExit
    ELSE IF Ge(row.high, ot.stop) THEN ot.stop
         ELSE IF Le(row.low, ot.target) THEN ot.target
         ELSE NoExit

\* exit_price of the EXIT branch; NoExit when the position stays open
ExitPrice(ot, row) ==
    IF SessionExit(row) THEN row.close
    ELSE IF ot.side = "long"
         THEN IF Le(row.low, ot.stop) THEN ot.stop
              ELSE IF Ge(row.high, ot.target) THEN ot.target
              ELSE NoExit
         ELSE IF Ge(row.high, ot.stop) THEN ot.stop
              ELSE IF Le(row.low, ot.target) THEN ot.target
              ELSE NoExit

Pnl(ot, exit_price) ==
    ((IF ot.side = "long" THEN exit_price - ot.entry_price
                          ELSE ot.entry_price - exit_price) * ot.size) \div SIZE_DEN

ClosedTrade(ot, row, exit_price) ==
    [ side |-> ot.side, entry_time |-> ot.entry_time,
      entry_price |-> ot.entry_price, stop |-> ot.stop, target |-> ot.target,
      size |-> IntSize(ot.size), exit_time |-> row.Index, exit_price |-> exit_price,
      pnl |-> Pnl(ot, exit_price) ]

\* the EXIT branch alone
ExitBranch(st, row) ==
    LET exit_price == ExitPrice(st.open_trade, row)
    IN IF exit_price # NoExit
       THEN LET t == ClosedTrade(st.open_trade, row, exit_price)
            IN [ open_trade |-> None,
                 trade_log |-> Append(st.trade_log, t),
                 pnl_history |-> Append(st.pnl_history, t.pnl),
                 equity |-> st.equity + t.pnl ]
       ELSE st

\* Step with EXIT as a separate "if" after ENTRY instead of its "elif"
Step_IfNotElif(st, row, med) ==
    IF Skipped(row) THEN st
    ELSE LET s1 == IF EntryGate(st.open_trade, row, med) /\ AnySignal(row)
                   THEN [st EXCEPT !.open_trade = NewTrade(row)]
                   ELSE st
         IN IF s1.open_trade # None THEN ExitBranch(s1, row) ELSE s1

\* One iteration of the loop over df_bt.itertuples(): the state after `row`
Step(st, row, med) ==
    IF Skipped(row) THEN st
    ELSE IF EntryGate(st.open_trade, row, med)
    THEN IF AnySignal(row)
         THEN [st EXCEPT !.open_trade = NewTrade(row)]
         ELSE st
    ELSE IF st.open_trade # None
    THEN ExitBranch(st, row)
    ELSE st

State == [ open_trade |-> open_trade, trade_log |-> trade_log,
           pnl_history |-> pnl_history, equity |-> equity ]

\* ------------------------------------------------------------------------
\* Specification of run_backtest(df, atr_med) over a streamed series
\* ------------------------------------------------------------------------
Init ==
    /\ atr_med \in AtrMeds
    /\ i = 0
    /\ r = None
    /\ open_trade = None
    /\ trade_log = <<>>
    /\ pnl_history = <<>>
    /\ equity = INITIAL_EQ
    /\ df = <<>>
    /\ csv = <<>>
    /\ result = None
    /\ NoBot
    /\ results_dir = NoFiles
    /\ fetched = None

\* local timestamps the next row of the sorted frame can carry
NextTimes == IF r = None THEN StartTimes
             ELSE { r.Index + SGT_OFFSET + d : d \in Deltas }

ProcessBar ==
    /\ i < MaxBars
    /\ \E t \in NextTimes : \E row \in RowsAt(TzConvert(t)) :
         LET st == Step(State, row, atr_med)
         IN /\ r' = row
            /\ open_trade' = st.open_trade
            /\ trade_log' = st.trade_log
            /\ pnl_history' = st.pnl_history
            /\ equity' = st.equity
    /\ i' = i + 1
    /\ UNCHANGED <<atr_med, df, csv, result>>
    /\ UNCHANGED bot
    /\ UNCHANGED results_dir
    /\ UNCHANGED fetched

Next == ProcessBar

Spec == Init /\ [][Next]_vars

\* ------------------------------------------------------------------------
\* main: calculate_indicators, the threshold, run_backtest over the frame
\* ------------------------------------------------------------------------
\* number of rows of the frame main loads
MainBars == 3

NonNaN(col) == SelectSeq(col, LAMBDA x : ~isna(x))

\* k-th smallest value of a non-empty sequence
Kth(s, k) ==
    CHOOSE v \in { s[j] : j \in DOMAIN s } :
        /\ Cardinality({ j \in DOMAIN s : s[j] < v }) < k
        /\ k <= Cardinality({ j \in DOMAIN s : s[j] <= v })

\* pandas median: missing values skipped, NaN when nothing is left
median(col) ==
    LET s == NonNaN(col)
        n == Len(s)
    IN IF n = 0 THEN NaN
       ELSE IF n % 2 = 1 THEN Kth(s, (n + 1) \div 2)
       ELSE (Kth(s, n \div 2) + Kth(s, n \div 2 + 1)) \div 2

atr20_col(frame) == [ k \in 1..Len(frame) |-> frame[k].atr20 ]

\* df['atr20'].expanding().median() at row k
atr20_median_all(frame, k) == median(SubSeq(atr20_col(frame), 1, k))

\* calculate_conditions: the reported atr_gt_median_vol flag of row k
cond_vol(frame, k) == Gt(frame[k].atr20, atr20_median_all(frame, k))

\* calculate_conditions: the signal conditions of a row
cond_mr_long(row) == Lt(row.close, row.lower_band) /\ Lt(row.rsi14, 30)
cond_mr_short(row) == Gt(row.close, row.upper_band) /\ Gt(row.rsi14, 70)
cond_bo_long(row) == Gt(row.close, row.high_3h) /\ Gt(row.rsi14, 60)
cond_bo_short(row) == Lt(row.close, row.low_3h) /\ Lt(row.rsi14, 40)

\* calculate_conditions: the reported potential_side of row k; the
\* assignment of -1 comes after the assignment of 1 and overwrites it
potential_side(frame, k) ==
    LET row == frame[k]
        long == cond_vol(frame, k) /\ (cond_mr_long(row) \/ cond_bo_long(row))
        short == cond_vol(frame, k) /\ (cond_mr_short(row) \/ cond_bo_short(row))
    IN IF short THEN -1 ELSE IF long THEN 1 ELSE 0

\* main's threshold: the median of the whole atr20 column
MainAtrMed(frame) == median(atr20_col(frame))

\* run_backtest's df_bt: the index converted to UTC
df_bt(frame) == [ k \in 1..Len(frame) |-> [frame[k] EXCEPT !.Index = TzConvert(@)] ]

\* a run starting from what the previous run left behind
StartState_LeftOver == [ open_trade |-> None, trade_log |-> trade_log,
                         pnl_history |-> pnl_history, equity |-> equity ]

StartState == [ open_trade |-> None, trade_log |-> <<>>,
                pnl_history |-> <<>>, equity |-> INITIAL_EQ ]

\* the loop of run_backtest over the first k rows
RECURSIVE Walk(_, _, _)
Walk(rows, k, med) ==
    IF k = 0 THEN StartState ELSE Step(Walk(rows, k - 1, med), rows[k], med)

\* main on a frame: the state run_backtest ends in
RunMain(frame) == Walk(df_bt(frame), Len(frame), MainAtrMed(frame))

\* rows of the frames main is run on: hourly bars from 18:00 local time
MainShapes ==
    { <<Inside, Inside, 50, 4>>, <<Inside, Inside, 50, 2>>,
      <<Below, Inside, 20, 4>>, <<Below, Inside, 20, 2>>,
      <<Below, Below, 20, 4>> }
MainPriceShapes == { <<0, 0>>, <<12, 1>> }

MainRowsAt(t) ==
    { MkRow(t, 200, p, s) : p \in MainPriceShapes, s \in MainShapes }
    \cup { WarmupRow(t, 200, <<0, 0>>) }

Frames ==
    { f \in [1..MainBars -> UNION { MainRowsAt(t) : t \in 18..(17 + MainBars) }] :
        \A k \in 1..MainBars : f[k].Index = 17 + k }

InitMain ==
    /\ df \in Frames
    /\ atr_med = MainAtrMed(df)
    /\ i = 0
    /\ r = None
    /\ open_trade = None
    /\ trade_log = <<>>
    /\ pnl_history = <<>>
    /\ equity = INITIAL_EQ
    /\ csv = <<>>
    /\ result = None
    /\ NoBot
    /\ results_dir = NoFiles
    /\ fetched = None

MainProcessBar ==
    /\ i < Len(df)
    /\ result = None
    /\ LET row == df_bt(df)[i + 1]
           st == Step(State, row, atr_med)
       IN /\ r' = row
          /\ open_trade' = st.open_trade
          /\ trade_log' = st.trade_log
          /\ pnl_history' = st.pnl_history
          /\ equity' = st.equity
    /\ i' = i + 1
    /\ UNCHANGED <<atr_med, df, csv, result>>
    /\ UNCHANGED bot
    /\ UNCHANGED results_dir
    /\ UNCHANGED fetched


\* ------------------------------------------------------------------------
\* run_backtest: the metrics and outputs computed after the loop
\* ------------------------------------------------------------------------
\* a quotient n / d the code holds as a float (d = 0: inf or nan)
Frac(n, d) == [n |-> n, d |-> d]

\* round(x, 0) of the float n / d: nearest integer, a tie to the even one
round0(x) ==
    IF x.d = 0 THEN NaN
    ELSE LET n == IF x.d < 0 THEN -x.n ELSE x.n
             d == Abs(x.d)
             q == n \div d
             rem == n - q * d
         IN IF 2 * rem < d THEN q
            ELSE IF 2 * rem > d THEN q + 1
            ELSE IF q % 2 = 0 THEN q ELSE q + 1

RECURSIVE Sum(_)
Sum(s) == IF s = <<>> THEN 0 ELSE s[1] + Sum(Tail(s))

SetMax(S) == CHOOSE x \in S : \A y \in S : y <= x

wins(pnl_arr) == SelectSeq(pnl_arr, LAMBDA x : x > 0)
losses(pnl_arr) == SelectSeq(pnl_arr, LAMBDA x : x < 0)

\* win_rate dividing by the number of trades without testing it
win_rate_NoEmptyGuard(pnl_arr) == Frac(Len(wins(pnl_arr)) * 100, Len(pnl_arr))

win_rate(pnl_arr) ==
    IF Len(pnl_arr) > 0 THEN Frac(Len(wins(pnl_arr)) * 100, Len(pnl_arr))
                        ELSE Frac(0, 1)

\* abs(avg_win / avg_loss), the two means being sum / count
win_loss_ratio(pnl_arr) ==
    LET w == wins(pnl_arr)
        l == losses(pnl_arr)
    IN IF Len(l) > 0
       THEN (IF Len(w) > 0 THEN Frac(Abs(Sum(w) * Len(l)), Abs(Len(w) * Sum(l)))
                           ELSE Frac(0, 1))
       ELSE Frac(0, 1)

cum_return_OverEquity(eq) == Frac((eq - INITIAL_EQ) * 100, eq)

cum_return(eq) == Frac((eq - INITIAL_EQ) * 100, INITIAL_EQ)

\* INITIAL_EQ + np.cumsum(pnl_history): one value per closed trade
eq_array(ph) == [ k \in 1..Len(ph) |-> INITIAL_EQ + Sum(SubSeq(ph, 1, k)) ]

\* a running maximum that starts from the initial capital
maximum_accumulate_FromInitial(a) ==
    [ k \in 1..Len(a) |-> SetMax({ INITIAL_EQ } \cup { a[j] : j \in 1..k }) ]

\* np.maximum.accumulate
maximum_accumulate(a) == [ k \in 1..Len(a) |-> SetMax({ a[j] : j \in 1..k }) ]

drawdowns(ph) ==
    [ k \in 1..Len(ph) |-> maximum_accumulate(eq_array(ph))[k] - eq_array(ph)[k] ]

max_dd_FromInitial(ph) ==
    IF Len(ph) > 0
    THEN LET peak == maximum_accumulate(<<INITIAL_EQ>> \o eq_array(ph))
         IN Frac(SetMax({ peak[k + 1] - eq_array(ph)[k] : k \in 1..Len(ph) }) * 100,
                 SetMax({ peak[k] : k \in 1..Len(peak) }))
    ELSE Frac(0, 1)

max_dd(ph) ==
    IF Len(ph) > 0
    THEN Frac(SetMax({ drawdowns(ph)[k] : k \in 1..Len(ph) }) * 100,
              SetMax({ maximum_accumulate(eq_array(ph))[k] : k \in 1..Len(ph) }))
    ELSE Frac(0, 1)

\* itertools.groupby(flags): the lengths of the maximal runs of True
consec(flags) ==
    { b - a + 1 : <<a, b>> \in
        { p \in (1..Len(flags)) \X (1..Len(flags)) :
            /\ p[1] <= p[2]
            /\ \A k \in p[1]..p[2] : flags[k]
            /\ (p[1] = 1 \/ ~flags[p[1] - 1])
            /\ (p[2] = Len(flags) \/ ~flags[p[2] + 1]) } }

max_consec(flags) == IF consec(flags) # {} THEN SetMax(consec(flags)) ELSE 0

max_consec_wins_NotLoss(pnl_arr) ==
    max_consec([ k \in 1..Len(pnl_arr) |-> pnl_arr[k] >= 0 ])

max_consec_wins(pnl_arr) ==
    max_consec([ k \in 1..Len(pnl_arr) |-> pnl_arr[k] > 0 ])

max_consec_losses(pnl_arr) ==
    max_consec([ k \in 1..Len(pnl_arr) |-> pnl_arr[k] < 0 ])

\* hours of a day (the index is in whole hours)
DAY == 24
WINDOW_7D == 7
WINDOW_30D == 30
WINDOW_3M == 90

\* now: the latest exit time of a non-empty log (exit_time is the string of
\* the row's timestamp, parsed back by to_datetime without loss)
now(log) == SetMax({ log[k].exit_time : k \in 1..Len(log) })

trades_since_Strict(log, days) ==
    SelectSeq(log, LAMBDA t : t.exit_time > now(log) - days * DAY)

\* trade_df[trade_df['exit_time_dt'] >= now - pd.Timedelta(days=days)]
trades_since(log, days) ==
    SelectSeq(log, LAMBDA t : t.exit_time >= now(log) - days * DAY)

pnl_of(trades) == [ k \in 1..Len(trades) |-> trades[k].pnl ]

\* Trades_Nd, PnL_Nd and Win_rate_Nd_pct of one trailing window
window(log, days) ==
    IF Len(log) > 0
    THEN LET w == trades_since(log, days)
         IN [ trades |-> Len(w),
              pnl |-> Sum(pnl_of(w)),
              win_rate |-> round0(win_rate(pnl_of(w))) ]
    ELSE [ trades |-> 0, pnl |-> 0, win_rate |-> 0 ]

metrics(st) ==
    [ Trades |-> Len(st.pnl_history),
      Win_rate_pct |-> round0(win_rate(st.pnl_history)),
      Win_Loss_ratio |-> round0(win_loss_ratio(st.pnl_history)),
      Cum_return_pct |-> round0(cum_return(st.equity)),
      Max_DD_pct |-> round0(max_dd(st.pnl_history)),
      Max_consec_losses |-> max_consec_losses(st.pnl_history),
      Max_consec_wins |-> max_consec_wins(st.pnl_history),
      Win_rate_30d_pct |-> window(st.trade_log, WINDOW_30D).win_rate,
      Trades_30d |-> window(st.trade_log, WINDOW_30D).trades,
      PnL_30d |-> window(st.trade_log, WINDOW_30D).pnl,
      Win_rate_7d_pct |-> window(st.trade_log, WINDOW_7D).win_rate,
      Trades_7d |-> window(st.trade_log, WINDOW_7D).trades,
      PnL_7d |-> window(st.trade_log, WINDOW_7D).pnl,
      Win_rate_3m_pct |-> window(st.trade_log, WINDOW_3M).win_rate,
      Trades_3m |-> window(st.trade_log, WINDOW_3M).trades,
      PnL_3m |-> window(st.trade_log, WINDOW_3M).pnl ]

\* live_position reporting the last closed trade when no position is open
live_position_LastTrade(st) ==
    IF st.open_trade # None
    THEN [ entry_time |-> st.open_trade.entry_time,
           position |-> st.open_trade.side,
           entry_price |-> st.open_trade.entry_price,
           stop_price |-> st.open_trade.stop,
           tp_price |-> st.open_trade.target ]
    ELSE IF st.trade_log # <<>>
    THEN LET t == st.trade_log[Len(st.trade_log)]
         IN [ entry_time |-> t.entry_time, position |-> t.side,
              entry_price |-> t.entry_price, stop_price |-> t.stop,
              tp_price |-> t.target ]
    ELSE None

live_position(st) ==
    IF st.open_trade # None
    THEN [ entry_time |-> st.open_trade.entry_time,
           position |-> st.open_trade.side,
           entry_price |-> st.open_trade.entry_price,
           stop_price |-> st.open_trade.stop,
           tp_price |-> st.open_trade.target ]
    ELSE None

\* number of trailing points of the trade-number equity curve
CURVE_POINTS == 500

\* a slice keeping the first `points` elements
last_points_Head(a, points) ==
    SubSeq(a, 1, IF Len(a) < points THEN Len(a) ELSE points)

\* list(a)[-points:] for points >= 1
last_points(a, points) == SubSeq(a, SetMax({1, Len(a) - points + 1}), Len(a))

equity_curve(ph) == last_points(eq_array(ph), CURVE_POINTS)

RECURSIVE equity_curve_ts(_)
equity_curve_ts(log) ==
    IF log = <<>> THEN <<>>
    ELSE LET head == equity_curve_ts(SubSeq(log, 1, Len(log) - 1))
             trade == log[Len(log)]
         IN Append(head,
               [ exit_time |-> trade.exit_time,
                 equity |-> IF Len(head) = 0 THEN INITIAL_EQ + trade.pnl
                            ELSE head[Len(head)].equity + trade.pnl ])

\* what run_backtest returns
Outputs(st) ==
    [ trade_df |-> st.trade_log,
      metrics |-> metrics(st),
      live_position |-> live_position(st),
      equity_curve |-> equity_curve(st.pnl_history),
      equity_curve_ts |-> equity_curve_ts(st.trade_log) ]

\* the loop has consumed every row (a streamed series ends anywhere)
LoopDone ==
    IF csv # <<>> \/ df # <<>> THEN df # <<>> /\ i = Len(df) ELSE TRUE

\* the code after the loop, up to the return
Return ==
    /\ LoopDone
    /\ result = None
    /\ result' = Outputs(State)
    /\ UNCHANGED <<atr_med, i, r, open_trade, trade_log, pnl_history, equity, df, csv>>
    /\ UNCHANGED bot
    /\ UNCHANGED results_dir
    /\ UNCHANGED fetched

\* main on a frame: the loop over its rows, then the return
NextMain == MainProcessBar \/ Return

SpecMain == InitMain /\ [][NextMain]_vars

\* ------------------------------------------------------------------------
\* Specification of run_backtest over a longer series of fewer row shapes,
\* followed by its return
\* ------------------------------------------------------------------------
\* number of rows of the longer series
MaxLongBars == 4

\* local time of its first row (08:00 UTC) and the gaps between its rows
LongStart == 16
LongDeltas == {1, 5}

LongShapes == { <<Below, Inside, 20, 4>>, <<Above, Inside, 80, 4>> }
LongPriceShapes == { <<0, 0>>, <<12, 0>>, <<0, 12>> }

LongRowsAt(t) ==
    { MkRow(t, c, p, s) : c \in Closes, p \in LongPriceShapes, s \in LongShapes }
    \cup ZeroRowsAt(t)

LongTimes == IF r = None THEN {LongStart}
             ELSE { r.Index + SGT_OFFSET + d : d \in LongDeltas }

InitLong ==
    /\ atr_med = 2
    /\ i = 0
    /\ r = None
    /\ open_trade = None
    /\ trade_log = <<>>
    /\ pnl_history = <<>>
    /\ equity = INITIAL_EQ
    /\ df = <<>>
    /\ csv = <<>>
    /\ result = None
    /\ NoBot
    /\ results_dir = NoFiles
    /\ fetched = None

LongProcessBar ==
    /\ i < MaxLongBars
    /\ result = None
    /\ \E t \in LongTimes : \E row \in LongRowsAt(TzConvert(t)) :
         LET st == Step(State, row, atr_med)
         IN /\ r' = row
            /\ open_trade' = st.open_trade
            /\ trade_log' = st.trade_log
            /\ pnl_history' = st.pnl_history
            /\ equity' = st.equity
    /\ i' = i + 1
    /\ UNCHANGED <<atr_med, df, csv, result>>
    /\ UNCHANGED bot
    /\ UNCHANGED results_dir
    /\ UNCHANGED fetched

NextLong == LongProcessBar \/ Return

SpecLong == InitLong /\ [][NextLong]_vars

\* ------------------------------------------------------------------------
\* main from load_data on: the file is read, indexed by timestamp and
\* sorted, then enriched and handed to run_backtest
\* ------------------------------------------------------------------------
\* number of rows of the file
LoadRows == 2

\* files: rows in any order of timestamps, repeated timestamps included
\* (a row stands for the file's row with the indicator columns
\* calculate_indicators attaches to it)
Files ==
    [1..LoadRows -> UNION { MainRowsAt(t) : t \in 18..(17 + LoadRows) }]

\* df.sort_index(): the rows in ascending order of the index; the order of
\* rows with equal timestamps is whatever the sort leaves
sort_index(rows) ==
    { f \in [1..Len(rows) -> { rows[k] : k \in 1..Len(rows) }] :
        /\ \A j, k \in 1..Len(rows) : j < k => f[j].Index <= f[k].Index
        /\ \A x \in { rows[k] : k \in 1..Len(rows) } :
             Cardinality({ k \in 1..Len(rows) : f[k] = x })
               = Cardinality({ k \in 1..Len(rows) : rows[k] = x }) }

InitLoad ==
    /\ csv \in Files
    /\ df = <<>>
    /\ atr_med = NaN
    /\ i = 0
    /\ r = None
    /\ open_trade = None
    /\ trade_log = <<>>
    /\ pnl_history = <<>>
    /\ equity = INITIAL_EQ
    /\ result = None
    /\ NoBot
    /\ results_dir = NoFiles
    /\ fetched = None

load_data ==
    /\ csv # <<>>
    /\ df = <<>>
    /\ df' \in sort_index(csv)
    /\ atr_med' = MainAtrMed(df')
    /\ UNCHANGED <<i, r, open_trade, trade_log, pnl_history, equity, csv, result>>
    /\ UNCHANGED bot
    /\ UNCHANGED results_dir
    /\ UNCHANGED fetched

NextLoad == load_data \/ MainProcessBar \/ Return

SpecLoad == InitLoad /\ [][NextLoad]_vars

\* ------------------------------------------------------------------------
\* Specification of the code after the loop, from the states the loop can
\* end in after several trades spread over days
\* ------------------------------------------------------------------------
\* number of closed trades at the end of the loop
MaxTrades == 4

\* days between the exits of consecutive trades
DayGaps == {7, 30, 90}

\* the trades of the log: a long entered at 10:00 UTC and closed on the next
\* bar, at its stop ("loss"), at its target ("win"), or entered at a close
\* of 0 with size 0 ("flat")
Kinds == {"loss", "win", "flat"}

\* the bar a trade of that kind is entered on / closed on
KindEntryRow(kind, day) ==
    IF kind = "flat" THEN MkRow(day * DAY + 10, 0, <<0, 0>>, <<Below, Below, 20, 4>>)
                     ELSE MkRow(day * DAY + 10, 200, <<0, 0>>, <<Below, Inside, 20, 4>>)

KindExitRow(kind, day) ==
    MkRow(day * DAY + 11, 200,
          IF kind = "loss" THEN <<0, 12>> ELSE IF kind = "win" THEN <<12, 0>> ELSE <<0, 0>>,
          <<Inside, Inside, 50, 4>>)

KindTrade(kind, day) ==
    LET ot == NewTrade(KindEntryRow(kind, day))
        row == KindExitRow(kind, day)
    IN ClosedTrade(ot, row, ExitPrice(ot, row))

\* day of the k-th exit, the first being on day 0
ExitDay(gaps, k) == Sum(SubSeq(gaps, 1, k - 1))

InitMetrics ==
    \E n \in 0..MaxTrades :
      \E kinds \in [1..n -> Kinds] : \E gaps \in [1..(n - 1) -> DayGaps] :
        /\ trade_log = [ k \in 1..n |-> KindTrade(kinds[k], ExitDay(gaps, k)) ]
        /\ pnl_history = [ k \in 1..n |-> KindTrade(kinds[k], ExitDay(gaps, k)).pnl ]
        /\ equity = INITIAL_EQ
                    + Sum([ k \in 1..n |-> KindTrade(kinds[k], ExitDay(gaps, k)).pnl ])
        /\ open_trade = None
        /\ r = IF n = 0 THEN None ELSE KindExitRow(kinds[n], ExitDay(gaps, n))
        /\ i = 2 * n
        /\ atr_med = 2
        /\ df = <<>>
        /\ csv = <<>>
        /\ result = None
        /\ NoBot
        /\ results_dir = NoFiles
        /\ fetched = None
    /\ fetched = None
    /\ results_dir = NoFiles
    /\ fetched = None

NextMetrics == Return

SpecMetrics == InitMetrics /\ [][NextMetrics]_vars

\* ------------------------------------------------------------------------
\* telegram_bot.py: send_telegram_message and the position-closed
\* notification
\* ------------------------------------------------------------------------
\* values of the two environment variables ("": not set)
Tokens == {"", "123456789:ABC"}
ChatIds == {"", "42"}

\* what requests.post does: a response with a status code, or an exception
STATUS_OK == 200
Statuses == {200, 201, 400, 401, 429, 500}
Exceptions == {"Timeout", "ConnectionError"}
Outcomes == { [status |-> c] : c \in Statuses } \cup { [exc |-> e] : e \in Exceptions }

\* dict.get(key, default)
Get(d, key, default) == IF key \in DOMAIN d THEN d[key] ELSE default

\* str.upper() on the sides the callers pass
upper(x) == CASE x = "long" -> "LONG"
              [] x = "short" -> "SHORT"
              [] x = "unknown" -> "UNKNOWN"

\* the outcome of a call: what was posted (None: no request), what was
\* returned ("nothing" when an exception left the function) and the exception
Outcome(posted, returned, raised) ==
    [posted |-> posted, returned |-> returned, raised |-> raised]

\* send_telegram_message testing the token only
send_telegram_message_TokenOnly(message, outcome) ==
    IF TELEGRAM_BOT_TOKEN = ""
    THEN Outcome(None, "False", "")
    ELSE LET payload == [chat_id |-> TELEGRAM_CHAT_ID, text |-> message,
                         parse_mode |-> "HTML"]
         IN IF "status" \in DOMAIN outcome
            THEN (IF outcome.status = STATUS_OK THEN Outcome(payload, "True", "")
                                              ELSE Outcome(payload, "False", ""))
            ELSE Outcome(payload, "False", "")

send_telegram_message(message, outcome) ==
    IF TELEGRAM_BOT_TOKEN = "" \/ TELEGRAM_CHAT_ID = ""
    THEN Outcome(None, "False", "")
    ELSE LET payload == [chat_id |-> TELEGRAM_CHAT_ID, text |-> message,
                         parse_mode |-> "HTML"]
         IN IF "status" \in DOMAIN outcome
            THEN (IF outcome.status = STATUS_OK THEN Outcome(payload, "True", "")
                                              ELSE Outcome(payload, "False", ""))
            ELSE Outcome(payload, "False", "")

\* the f-string of send_position_closed_notification: evaluating the Return
\* line divides by entry_price
position_closed_message(trade_result) ==
    LET entry_price == Get(trade_result, "entry_price", 0)
        exit_price == Get(trade_result, "exit_price", 0)
        pnl == Get(trade_result, "pnl", 0)
    IN [ result |-> IF pnl > 0 THEN "WIN" ELSE "LOSS",
         side |-> upper(Get(trade_result, "side", "unknown")),
         pnl |-> pnl, entry_price |-> entry_price, exit_price |-> exit_price,
         return_pct |-> Frac((exit_price - entry_price) * 100, entry_price),
         entry_time |-> Get(trade_result, "entry_time", "Unknown"),
         exit_time |-> Get(trade_result, "exit_time", "Unknown") ]

send_position_closed_notification(trade_result, outcome) ==
    IF trade_result = <<>> THEN Outcome(None, "False", "")
    ELSE IF Get(trade_result, "entry_price", 0) = 0
         THEN Outcome(None, "nothing", "ZeroDivisionError")
         ELSE send_telegram_message(position_closed_message(trade_result), outcome)

\* trade results handed to the notification: the empty dict, closed trades,
\* and closed trades without an entry_price
TradeResults ==
    { <<>> }
    \cup { [side |-> s, entry_price |-> e, exit_price |-> x, pnl |-> p,
            entry_time |-> 10, exit_time |-> 11] :
             s \in {"long", "short"}, e \in {0, 200, 3200},
             x \in {12, 199, 212}, p \in {-5000, 0, 60000} }
    \cup { [side |-> s, exit_price |-> x, pnl |-> p] :
             s \in {"long", "short"}, x \in {199, 212}, p \in {-5000, 60000} }

\* message texts passed to send_telegram_message directly
Messages == {"Telegram Bot Test", ""}

InitBot ==
    /\ TELEGRAM_BOT_TOKEN \in Tokens
    /\ TELEGRAM_CHAT_ID \in ChatIds
    /\ call = None
    /\ atr_med = NaN
    /\ i = 0
    /\ r = None
    /\ open_trade = None
    /\ trade_log = <<>>
    /\ pnl_history = <<>>
    /\ equity = INITIAL_EQ
    /\ df = <<>>
    /\ csv = <<>>
    /\ result = None
    /\ results_dir = NoFiles
    /\ fetched = None

CallSendTelegramMessage ==
    /\ \E message \in Messages : \E outcome \in Outcomes :
         call' = [ fn |-> "send_telegram_message", arg |-> message,
                   response |-> outcome,
                   out |-> send_telegram_message(message, outcome) ]
    /\ UNCHANGED <<TELEGRAM_BOT_TOKEN, TELEGRAM_CHAT_ID>>
    /\ UNCHANGED engine
    /\ UNCHANGED results_dir
    /\ UNCHANGED fetched

CallSendPositionClosed ==
    /\ \E trade_result \in TradeResults : \E outcome \in Outcomes :
         call' = [ fn |-> "send_position_closed_notification", arg |-> trade_result,
                   response |-> outcome,
                   out |-> send_position_closed_notification(trade_result, outcome) ]
    /\ UNCHANGED <<TELEGRAM_BOT_TOKEN, TELEGRAM_CHAT_ID>>
    /\ UNCHANGED engine
    /\ UNCHANGED results_dir
    /\ UNCHANGED fetched

NextBot == CallSendTelegramMessage \/ CallSendPositionClosed

SpecBot == InitBot /\ [][NextBot]_vars

\* ------------------------------------------------------------------------
\* Specification of repeated runs of main over the same RESULTS_DIR (the
\* scheduled job): each run is given a frame and writes its files
\* ------------------------------------------------------------------------
TRADE_LOG_TAIL == 59
DISPLAY_ROWS == 12

\* DataFrame.tail(n)
tail(a, n) == IF Len(a) <= n THEN a ELSE SubSeq(a, Len(a) - n + 1, Len(a))

\* calculate_conditions: the conditions frame
conditions(frame) ==
    [ k \in 1..Len(frame) |->
        LET row == frame[k]
            side == potential_side(frame, k)
        IN [ Index |-> row.Index,
             close |-> row.close,
             potential_side |-> side,
             below_lower_MR_long |-> cond_mr_long(row),
             above_upper_MR_short |-> cond_mr_short(row),
             price_above_high3 |-> Gt(row.close, row.high_3h),
             price_below_low3 |-> Lt(row.close, row.low_3h),
             rsi_gt_60_BO_long |-> Gt(row.rsi14, 60),
             rsi_lt_40_BO_short |-> Lt(row.rsi14, 40),
             potential_stop |-> row.close - (row.close * side) \div STOP_PCT_DEN,
             atr_gt_median_vol |-> cond_vol(frame, k) ] ]

\* the wall clock main stamps metrics.json with
Clocks == {1, 2}

\* main, "Save results": RESULTS_DIR after the run
Saved(old, frame, out, clock) ==
    [ metrics_json |-> [ metrics |-> out.metrics,
                         live_position |-> out.live_position,
                         equity_curve |-> out.equity_curve,
                         last_updated |-> clock,
                         data_latest_timestamp |->
                             SetMax({ frame[k].Index : k \in 1..Len(frame) }) ],
      trade_log_csv |-> IF Len(out.trade_df) > 0
                        THEN tail(out.trade_df, TRADE_LOG_TAIL)
                        ELSE old.trade_log_csv,
      conditions_csv |-> tail(conditions(frame), DISPLAY_ROWS),
      indicators_csv |-> tail(frame, DISPLAY_ROWS),
      equity_curve_ts_csv |-> IF out.equity_curve_ts # <<>>
                              THEN out.equity_curve_ts
                              ELSE old.equity_curve_ts_csv ]

\* rows of the frames of the repeated runs
FileShapes == { <<Below, Inside, 20, 4>>, <<Inside, Inside, 50, 2>> }

FileRowsAt(t) ==
    { MkRow(t, 200, <<12, 1>>, s) : s \in FileShapes }
    \cup { WarmupRow(t, 200, <<0, 0>>) }

FileFrames ==
    { f \in [1..MainBars -> UNION { FileRowsAt(t) : t \in 18..(17 + MainBars) }] :
        \A k \in 1..MainBars : f[k].Index = 17 + k }

InitFiles ==
    /\ df = <<>>
    /\ atr_med = NaN
    /\ i = 0
    /\ r = None
    /\ open_trade = None
    /\ trade_log = <<>>
    /\ pnl_history = <<>>
    /\ equity = INITIAL_EQ
    /\ csv = <<>>
    /\ result = None
    /\ NoBot
    /\ results_dir = NoFiles
    /\ fetched = None

\* one run of main: indicators, run_backtest, conditions, the files
main ==
    \E frame \in FileFrames, clock \in Clocks :
       LET st == RunMain(frame)
           out == Outputs(st)
       IN /\ df' = frame
          /\ atr_med' = MainAtrMed(frame)
          /\ i' = Len(frame)
          /\ r' = df_bt(frame)[Len(frame)]
          /\ open_trade' = st.open_trade
          /\ trade_log' = st.trade_log
          /\ pnl_history' = st.pnl_history
          /\ equity' = st.equity
          /\ result' = out
          /\ results_dir' = Saved(results_dir, frame, out, clock)
          /\ UNCHANGED csv
          /\ UNCHANGED bot
          /\ UNCHANGED fetched

NextFiles == main

SpecFiles == InitFiles /\ [][NextFiles]_vars

\* ------------------------------------------------------------------------
\* btc_trading_app.py: the live price and klines fetches, each answer of an
\* exchange being any of the answers below
\* ------------------------------------------------------------------------
\* None where a number may stand
NoValue == -3000000

HTTP_OK == 200
HttpStatuses == {200, 500}
BybitCodes == {0, 10001}
OkxCodes == {"0", "51001"}

\* the texts an exchange sends for a price
PriceTexts == {"0", "65000", "n/a"}

\* float(text): ok is FALSE where Python raises ValueError
float(text) ==
    CASE text = "0" -> [ok |-> TRUE, value |-> 0]
      [] text = "65000" -> [ok |-> TRUE, value |-> 65000]
      [] OTHER -> [ok |-> FALSE, value |-> NoValue]

\* the open_time texts of a kline (hours), int(text) as float(text) above
TimeTexts == {"1", "2", "n/a"}

int(text) ==
    CASE text = "1" -> [ok |-> TRUE, value |-> 1]
      [] text = "2" -> [ok |-> TRUE, value |-> 2]
      [] OTHER -> [ok |-> FALSE, value |-> NoValue]

\* requests.get: it raises, or answers with a status and a decoded body
Answers(codes, lists) ==
    { [kind |-> "raise", status |-> 0, code |-> 0, list |-> <<>>, text |-> e] :
         e \in Exceptions }
    \cup { [kind |-> "http", status |-> st, code |-> c, list |-> l, text |-> ""] :
              st \in HttpStatuses, c \in codes, l \in lists }

PriceLists == { <<>> } \cup { <<t>> : t \in PriceTexts }
KlineLists == { <<>>, <<"2", "1">>, <<"1">>, <<"n/a">> }

\* the pair (value, error) a fetch returns
Pair(value, error) == [value |-> value, error |-> error]

\* Python truth of a price: None and 0.0 are false
truthy(price) == price # NoValue /\ price # 0

\* fetch_btc_price_bybit / fetch_btc_price_okx on an answer; ok_code is the
\* code the exchange sends on success
fetch_btc_price_from(name, ok_code, answer) ==
    IF answer.kind = "raise" THEN Pair(NoValue, [text |-> answer.text, status |-> 0])
    ELSE IF answer.status = HTTP_OK /\ answer.code = ok_code /\ answer.list # <<>>
         THEN IF float(answer.list[1]).ok
              THEN Pair(float(answer.list[1]).value, None)
              ELSE Pair(NoValue, [text |-> "ValueError", status |-> 0])
         ELSE Pair(NoValue, [text |-> name, status |-> answer.status])

\* fetch_btc_price: the sources queried and the pair returned
fetch_btc_price(bybit, okx) ==
    LET first == fetch_btc_price_from("Bybit error", 0, bybit)
        second == fetch_btc_price_from("OKX error", "0", okx)
    IN IF truthy(first.value)
       THEN [ fn |-> "fetch_btc_price", queried |-> << [source |-> "bybit", answer |-> bybit] >>,
              returned |-> Pair(first.value, None) ]
       ELSE [ fn |-> "fetch_btc_price",
              queried |-> << [source |-> "bybit", answer |-> bybit],
                             [source |-> "okx", answer |-> okx] >>,
              returned |-> IF truthy(second.value) THEN Pair(second.value, None)
                           ELSE Pair(NoValue, second.error) ]

\* sort_values('time_gmt8') of the converted open times
RECURSIVE sort_values(_)
sort_values(ts) ==
    IF ts = <<>> THEN <<>>
    ELSE LET k == CHOOSE k \in 1..Len(ts) : \A j \in 1..Len(ts) : ts[k] <= ts[j]
         IN <<ts[k]>> \o sort_values([ j \in 1..(Len(ts) - 1) |->
                                         IF j < k THEN ts[j] ELSE ts[j + 1] ])

\* fetch_btc_klines_bybit / fetch_btc_klines_okx on an answer: the frame is
\* its time_gmt8 column
fetch_btc_klines_from(name, ok_code, answer) ==
    IF answer.kind = "raise" THEN Pair(None, [text |-> answer.text, status |-> 0])
    ELSE IF answer.status = HTTP_OK /\ answer.code = ok_code /\ answer.list # <<>>
         THEN IF \A k \in 1..Len(answer.list) : int(answer.list[k]).ok
              THEN Pair([ time_gmt8 |->
                            sort_values([ k \in 1..Len(answer.list) |->
                                            int(answer.list[k]).value + 8 ]) ],
                        None)
              ELSE Pair(None, [text |-> "ValueError", status |-> 0])
         ELSE Pair(None, [text |-> name, status |-> answer.status])

IntervalKeys == {"15m", "4h", "1d"}

\* bybit_map.get(interval_key, ('15', 96)) and okx_map.get(interval_key, ('15m', 96))
bybit_map(interval_key) ==
    CASE interval_key = "1m" -> <<"1", 1440>>
      [] interval_key = "3m" -> <<"3", 480>>
      [] interval_key = "15m" -> <<"15", 96>>
      [] interval_key = "1h" -> <<"60", 24>>
      [] interval_key = "4h" -> <<"240", 6>>
      [] OTHER -> <<"15", 96>>

okx_map(interval_key) ==
    CASE interval_key = "1m" -> <<"1m", 1440>>
      [] interval_key = "3m" -> <<"3m", 480>>
      [] interval_key = "15m" -> <<"15m", 96>>
      [] interval_key = "1h" -> <<"1H", 24>>
      [] interval_key = "4h" -> <<"4H", 6>>
      [] OTHER -> <<"15m", 96>>

\* fetch_btc_klines: the sources queried and the pair returned
fetch_btc_klines(interval_key, bybit, okx) ==
    LET first == fetch_btc_klines_from("Bybit klines error", 0, bybit)
        second == fetch_btc_klines_from("OKX klines error", "0", okx)
        q1 == [source |-> "bybit", answer |-> bybit, params |-> bybit_map(interval_key)]
        q2 == [source |-> "okx", answer |-> okx, params |-> okx_map(interval_key)]
    IN IF first.value # None
       THEN [ fn |-> "fetch_btc_klines", queried |-> <<q1>>,
              returned |-> Pair(first.value, None) ]
       ELSE [ fn |-> "fetch_btc_klines", queried |-> <<q1, q2>>,
              returned |-> IF second.value # None THEN Pair(second.value, None)
                           ELSE Pair(None, second.error) ]

InitApp ==
    /\ df = <<>>
    /\ atr_med = NaN
    /\ i = 0
    /\ r = None
    /\ open_trade = None
    /\ trade_log = <<>>
    /\ pnl_history = <<>>
    /\ equity = INITIAL_EQ
    /\ csv = <<>>
    /\ result = None
    /\ NoBot
    /\ results_dir = NoFiles
    /\ fetched = None

\* the dashboard fetching the live price
CallFetchBtcPrice ==
    /\ \E bybit \in Answers(BybitCodes, PriceLists), okx \in Answers(OkxCodes, PriceLists) :
          fetched' = fetch_btc_price(bybit, okx)
    /\ UNCHANGED engine
    /\ UNCHANGED bot
    /\ UNCHANGED results_dir

\* the dashboard fetching the klines of the chart
CallFetchBtcKlines ==
    /\ \E key \in IntervalKeys,
          bybit \in Answers(BybitCodes, KlineLists), okx \in Answers(OkxCodes, KlineLists) :
          fetched' = fetch_btc_klines(key, bybit, okx)
    /\ UNCHANGED engine
    /\ UNCHANGED bot
    /\ UNCHANGED results_dir

NextApp == CallFetchBtcPrice \/ CallFetchBtcKlines

SpecApp == InitApp /\ [][NextApp]_vars

\* ------------------------------------------------------------------------
\* Vocabulary of the properties (written from the rules, not from the
\* operators above, so that a change of an operator shows)
\* ------------------------------------------------------------------------
Last(s) == s[Len(s)]

Flat == open_trade = None
InPosition == open_trade # None

\* this step appended a closed trade / created a position
Closes1 == Len(trade_log') = Len(trade_log) + 1
Opens == open_trade' # None /\ open_trade' # open_trade

InAsia(row) == \E h \in 0..11 : row.Index % 24 = h
InUS(row) == \E h \in 15..20 : row.Index % 24 = h
SessionExitBar(row) == InUS(row) /\ ~InAsia(row)
Evaluated(row) == row.sma20 # NaN /\ row.atr20 # NaN

HasRsi(row) == row.rsi14 # NaN
MRLong(row) == row.lower_band # NaN /\ HasRsi(row)
               /\ row.close < row.lower_band /\ row.rsi14 < 30
MRShort(row) == row.upper_band # NaN /\ HasRsi(row)
                /\ row.close > row.upper_band /\ row.rsi14 > 70
BOLong(row) == row.high_3h # NaN /\ HasRsi(row)
               /\ row.close > row.high_3h /\ row.rsi14 > 60
BOShort(row) == row.low_3h # NaN /\ HasRsi(row)
                /\ row.close < row.low_3h /\ row.rsi14 < 40
VolGate(row) == row.atr20 # NaN /\ atr_med # NaN /\ row.atr20 > atr_med

\* the record appended for the position `ot`
RecordOf(t, ot) ==
    /\ t.side = ot.side /\ t.entry_time = ot.entry_time
    /\ t.entry_price = ot.entry_price /\ t.stop = ot.stop
    /\ t.target = ot.target /\ t.size = ot.size \div SIZE_DEN

\* ------------------------------------------------------------------------
\* C1: at most one position is open at any time of the walk: a position is
\* created only from Flat (never over an open one), and every trade appended
\* to the log is the position that was open on the previous row, after which
\* the state is Flat.
\* ------------------------------------------------------------------------
C1_SinglePosition ==
    [][ /\ (Opens => open_trade = None /\ trade_log' = trade_log)
        /\ (trade_log' # trade_log =>
               /\ open_trade # None
               /\ open_trade' = None
               /\ Closes1
               /\ SubSeq(trade_log', 1, Len(trade_log)) = trade_log
               /\ RecordOf(Last(trade_log'), open_trade)) ]_vars

\* a trade was closed and a new position was opened after it
C1_Witness == Len(trade_log) = 1 /\ InPosition /\ i = 3

\* ------------------------------------------------------------------------
\* C2: every closed trade has exit_time strictly later than entry_time, and
\* its exit_price is the position's stop, its target, or the close of the
\* exit bar when that bar forced a session exit.
\* ------------------------------------------------------------------------
C2_ExitLaterAtRulePrice ==
    [][ trade_log' # trade_log =>
          LET t == Last(trade_log')
          IN /\ t.exit_time > t.entry_time
             /\ \/ t.exit_price = t.stop
                \/ t.exit_price = t.target
                \/ SessionExitBar(r') /\ t.exit_price = r'.close ]_vars

\* ------------------------------------------------------------------------
\* C3: on an evaluated bar that is not a session-exit bar, a long position
\* with low <= stop and high >= target (a short one with high >= stop and
\* low <= target) closes at the stop price.
\* ------------------------------------------------------------------------
BothReached(ot, row) ==
    \/ ot.side = "long" /\ row.low <= ot.stop /\ row.high >= ot.target
    \/ ot.side = "short" /\ row.high >= ot.stop /\ row.low <= ot.target

C3_StopBeforeTarget ==
    [][ (InPosition /\ Evaluated(r') /\ ~SessionExitBar(r')
         /\ BothReached(open_trade, r'))
        => /\ Closes1
           /\ open_trade' = None
           /\ Last(trade_log').exit_price = open_trade.stop
           /\ Last(trade_log').exit_price # open_trade.target ]_vars

\* the second bar reached both levels of the position opened on the first
C3_Witness ==
    /\ i = 2 /\ Len(trade_log) = 1 /\ Flat
    /\ Evaluated(r) /\ ~SessionExitBar(r)
    /\ BothReached(Last(trade_log), r)
    /\ Last(trade_log).exit_price = Last(trade_log).stop

\* ------------------------------------------------------------------------
\* C4: on an evaluated bar whose hour is in the US set and not in the Asia
\* set, an open position is closed at that bar's close, also when the bar
\* reaches the stop or the target; a trade that closes at another price than
\* the bar's close was not closed on such a bar.
\* ------------------------------------------------------------------------
C4_SessionExitFirst ==
    [][ /\ (InPosition /\ Evaluated(r') /\ SessionExitBar(r'))
           => /\ Closes1
              /\ open_trade' = None
              /\ Last(trade_log').exit_price = r'.close
              /\ Last(trade_log').exit_time = r'.Index
        /\ (Closes1 /\ Last(trade_log').exit_price # r'.close)
           => ~SessionExitBar(r') ]_vars

\* a session-exit bar that also reached the stop closed the trade at its close
C4_Witness ==
    /\ i = 2 /\ Len(trade_log) = 1 /\ Flat
    /\ Evaluated(r) /\ SessionExitBar(r)
    /\ Last(trade_log).side = "long" /\ r.low <= Last(trade_log).stop
    /\ Last(trade_log).exit_price = r.close
    /\ r.close # Last(trade_log).stop

C6_OneTransitionPerBar ==
    [][ /\ i' = i + 1
        /\ (r # None => r'.Index >= r.Index)
        /\ (trade_log' # trade_log =>
               /\ Closes1
               /\ open_trade' = None
               /\ InPosition
               /\ Last(trade_log').entry_time = open_trade.entry_time)
        /\ (Opens => trade_log' = trade_log) ]_vars

\* a bar that closed the position also carried an actionable entry signal,
\* and the state after it is Flat
C6_Witness ==
    /\ i = 2 /\ Len(trade_log) = 1 /\ Flat
    /\ Evaluated(r) /\ InAsia(r) /\ VolGate(r)
    /\ (MRLong(r) \/ MRShort(r) \/ BOLong(r) \/ BOShort(r))

\* ------------------------------------------------------------------------
\* C7: a position is opened on a bar only if the state is Flat, the bar's
\* hour is in the Asia set, its ATR is strictly above the threshold and one
\* of the four entry conditions holds; from Flat, if any of these fails the
\* state stays Flat.
\* ------------------------------------------------------------------------
Actionable(row) ==
    /\ InAsia(row)
    /\ VolGate(row)
    /\ (MRLong(row) \/ MRShort(row) \/ BOLong(row) \/ BOShort(row))

C7_EntryOnlyWhenGated ==
    [][ /\ (Opens => Flat /\ Actionable(r') /\ open_trade'.entry_time = r'.Index)
        /\ (Flat /\ ~Actionable(r') => open_trade' = None) ]_vars

\* a position opened on the first bar by a breakout-short signal alone
C7_Witness ==
    /\ i = 1 /\ InPosition /\ Actionable(r)
    /\ BOShort(r) /\ ~MRLong(r) /\ ~MRShort(r) /\ ~BOLong(r)
    /\ open_trade.side = "short"

\* ------------------------------------------------------------------------
\* C10: when a long and a short condition hold on the bar that opens a
\* position, the position is long.
\* ------------------------------------------------------------------------
C10_LongBeforeShort ==
    [][ (Opens /\ (MRLong(r') \/ BOLong(r')) /\ (MRShort(r') \/ BOShort(r')))
        => open_trade'.side = "long" ]_vars

\* the first bar had a mean-reversion long and a breakout short signal
C10_Witness ==
    /\ i = 1 /\ InPosition /\ Actionable(r)
    /\ MRLong(r) /\ BOShort(r)
    /\ open_trade.side = "long"

\* ------------------------------------------------------------------------
\* C8: on every bar the engine's volatility gate (atr20 > atr_med, with the
\* threshold main supplies) decides as the reported atr_gt_median_vol flag
\* (atr20 > expanding median up to that bar), as it would if the threshold
\* were the expanding median.
\* ------------------------------------------------------------------------
C8_GateAgreesWithCondVol ==
    i >= 1 => (VolGate(r) <=> cond_vol(df, i))

\* ------------------------------------------------------------------------
\* C9: no lookahead: the state and the trade log after bar i are those of
\* main run on the first i bars alone, whatever bars follow.
\* ------------------------------------------------------------------------
C9_NoLookahead ==
    State = RunMain(SubSeq(df, 1, i))

\* C11: a position opened on a bar has entry_price = that bar's close, its
\* stop half a percent below the entry (long) or above it (short), and its
\* target three ATRs above the entry (long) or below it (short); with a
\* positive entry price and ATR a long has stop < entry < target and a
\* short target < entry < stop; and while the position stays open none of
\* its values changes.
C11_EntryLevelsFixed ==
    [][ /\ Opens =>
            LET ot == open_trade'
                bar == r'
            IN /\ ot.entry_price = bar.close
               /\ ot.side = "long" =>
                    /\ 200 * ot.stop = 199 * ot.entry_price
                    /\ ot.target = ot.entry_price + 3 * bar.atr20
                    /\ (ot.entry_price > 0 /\ bar.atr20 > 0
                          => ot.stop < ot.entry_price /\ ot.entry_price < ot.target)
               /\ ot.side = "short" =>
                    /\ 200 * ot.stop = 201 * ot.entry_price
                    /\ ot.target = ot.entry_price - 3 * bar.atr20
                    /\ (ot.entry_price > 0 /\ bar.atr20 > 0
                          => ot.target < ot.entry_price /\ ot.entry_price < ot.stop)
        /\ (InPosition /\ ~Closes1) => open_trade' = open_trade
      ]_vars

\* a short opened at 3200 is still open, unchanged, one bar later
C11_Witness ==
    /\ InPosition
    /\ open_trade.side = "short" /\ open_trade.entry_price = 3200
    /\ open_trade.stop = 3216 /\ open_trade.target = 3188
    /\ r.Index > open_trade.entry_time

\* C12: every closed trade's pnl is (exit_price - entry_price) * size for a
\* long and (entry_price - exit_price) * size for a short, with the
\* entry_price, exit_price and size stored in that same record; and once
\* the record is appended no position is open.
C12_PnlFromRecord ==
    [][ Closes1 =>
          LET t == Last(trade_log')
          IN /\ t.side = "long" => t.pnl = (t.exit_price - t.entry_price) * t.size
             /\ t.side = "short" => t.pnl = (t.entry_price - t.exit_price) * t.size
             /\ open_trade' = None
      ]_vars

C14_StopLosesRiskAmount ==
    /\ (InPosition /\ open_trade.entry_price # open_trade.stop) =>
          open_trade.size * Abs(open_trade.entry_price - open_trade.stop)
            = 2 * ((100000 * 5) \div 100)
    /\ \A k \in 1..Len(trade_log) :
          (trade_log[k].entry_price > 0 /\ trade_log[k].exit_price = trade_log[k].stop)
             => trade_log[k].pnl = -((100000 * 5) \div 100)

\* after a winning first trade, a second trade is stopped out
C14_Witness ==
    /\ Len(trade_log) = 2
    /\ trade_log[1].pnl > 0
    /\ trade_log[2].entry_price = 3200
    /\ trade_log[2].exit_price = trade_log[2].stop
    /\ trade_log[2].pnl = -5000

\* C15: a bar on which any decision indicator is undefined (moving average
\* or bands, ATR, RSI, or the breakout levels) is excluded from the
\* simulation: processing it opens no position, closes no position and
\* leaves the state unchanged.
C15_UndefinedBarExcluded ==
    [][ (i' = i + 1 /\ \E x \in { r'.sma20, r'.lower_band, r'.upper_band, r'.atr20,
                                  r'.rsi14, r'.low_3h, r'.high_3h } : x = NaN)
          => /\ open_trade' = open_trade
             /\ trade_log' = trade_log
             /\ pnl_history' = pnl_history
             /\ equity' = equity
      ]_vars

\* C16: when entry_price and stop coincide (zero unit risk) the signal still
\* opens a position, with size 0, and that position later closes as a
\* trade of size 0 and pnl 0.
C16_ZeroUnitRisk ==
    /\ (InPosition /\ open_trade.entry_price = open_trade.stop) => open_trade.size = 0
    /\ \A k \in 1..Len(trade_log) :
          trade_log[k].entry_price = trade_log[k].stop
             => trade_log[k].size = 0 /\ trade_log[k].pnl = 0

\* a long opened at a close of 0 was closed at its target 12
C16_Witness ==
    /\ trade_log # <<>>
    /\ Last(trade_log).entry_price = 0 /\ Last(trade_log).stop = 0
    /\ Last(trade_log).exit_price = 12
    /\ Last(trade_log).size = 0 /\ Last(trade_log).pnl = 0

\* C17: a file with duplicated or out-of-order timestamps is rejected as
\* invalid input: the run fails fast, nothing of it is processed and no
\* trade log or metrics are produced.
C17_InvalidSeriesRejected ==
    (\E j, k \in 1..Len(csv) : j < k /\ csv[j].Index >= csv[k].Index)
       => df = <<>> /\ i = 0 /\ result = None

\* C18: the trailing windows are nested.  With the cutoff of a window being
\* the latest exit time minus 7, 30 or 90 days and a trade belonging to it
\* when its exit time is at or after the cutoff, the trades of the 7-day
\* window are among those of the 30-day window, these among those of the
\* 90-day window, and Trades_7d <= Trades_30d <= Trades_3m <= Trades; a
\* non-empty log has its latest trade in all three windows.
C18_WindowsNested ==
    result # None =>
      LET m == result.metrics
          n == Len(trade_log)
          latest == CHOOSE t \in { trade_log[k].exit_time : k \in 1..n } :
                       \A k \in 1..n : trade_log[k].exit_time <= t
          In(days) == { k \in 1..n : trade_log[k].exit_time >= latest - days * 24 }
      IN /\ n = 0 => m.Trades_7d = 0 /\ m.Trades_30d = 0 /\ m.Trades_3m = 0
         /\ n > 0 =>
              /\ m.Trades_7d = Cardinality(In(7))
              /\ m.Trades_30d = Cardinality(In(30))
              /\ m.Trades_3m = Cardinality(In(90))
              /\ In(7) \subseteq In(30) /\ In(30) \subseteq In(90)
              /\ m.Trades_7d >= 1
              /\ \A d \in {7, 30, 90} : \E k \in In(d) : trade_log[k].exit_time = latest
         /\ m.Trades_7d <= m.Trades_30d /\ m.Trades_30d <= m.Trades_3m
         /\ m.Trades_3m <= m.Trades /\ m.Trades = n

\* four trades, the windows holding one, two and three of them
C18_Witness ==
    /\ result # None
    /\ result.metrics.Trades_7d = 1 /\ result.metrics.Trades_30d = 2
    /\ result.metrics.Trades_3m = 3 /\ result.metrics.Trades = 4

\* C19: max drawdown % is, over the equity curve holding one value per
\* closed trade (the initial capital plus the pnl so far), the largest
\* (running maximum of the equity so far - equity) divided by the largest
\* running maximum, times 100 (reported to the nearest whole percent); it
\* is 0 when there are no trades.
C19_MaxDrawdown ==
    LET n == Len(pnl_history)
        Eq(k) == 100000 + Sum(SubSeq(pnl_history, 1, k))
        Peak(k) == CHOOSE x \in { Eq(j) : j \in 1..k } : \A j \in 1..k : Eq(j) <= x
        Worst == CHOOSE x \in { Peak(k) - Eq(k) : k \in 1..n } :
                    \A k \in 1..n : Peak(k) - Eq(k) <= x
    IN /\ n > 0 => max_dd(pnl_history) = [n |-> Worst * 100, d |-> Peak(n)]
       /\ result # None =>
            /\ n = 0 => result.metrics.Max_DD_pct = 0
            /\ n > 0 => 2 * Abs(result.metrics.Max_DD_pct * Peak(n) - Worst * 100)
                          <= Peak(n)

\* a win, two losses and a win: the drawdown is 10000 below a peak of 160000
C19_Witness ==
    /\ result # None
    /\ pnl_history = <<60000, -5000, -5000, 60000>>
    /\ max_dd(pnl_history) = [n |-> 1000000, d |-> 210000]
    /\ result.metrics.Max_DD_pct = 5

\* C20: Max_consec_wins is the length of the longest run of consecutive
\* trades with pnl strictly above 0 and Max_consec_losses that of the
\* longest run with pnl strictly below 0; a trade with pnl 0 ends both
\* kinds of run, and both are 0 when there is no such trade.
C20_Streaks ==
    result # None =>
      LET n == Len(pnl_history)
          Run(a, l, won) == \A k \in a..(a + l - 1) :
                              IF won THEN pnl_history[k] > 0 ELSE pnl_history[k] < 0
          Longest(won) ==
              CHOOSE l \in 0..n :
                 /\ (l = 0 \/ \E a \in 1..(n - l + 1) : Run(a, l, won))
                 /\ \A l2 \in (l + 1)..n : ~ \E a \in 1..(n - l2 + 1) : Run(a, l2, won)
      IN /\ result.metrics.Max_consec_wins = Longest(TRUE)
         /\ result.metrics.Max_consec_losses = Longest(FALSE)

\* two wins separated by a trade of pnl 0 do not make a run of three
C20_Witness ==
    /\ result # None
    /\ pnl_history = <<60000, 0, 60000, -5000>>
    /\ result.metrics.Max_consec_wins = 1
    /\ result.metrics.Max_consec_losses = 1

\* C21: if no bar of the series satisfies the gated entry conditions (an
\* entry signal on a bar of the Asia session whose ATR is above the
\* threshold), the walk never leaves Flat, the trade log and both equity
\* curves are empty, there is no live position, and every numeric metric
\* is 0.
C21_NoEntryAllZero ==
    (\A k \in 1..Len(df) : ~Actionable(df_bt(df)[k])) =>
       /\ Flat /\ trade_log = <<>> /\ pnl_history = <<>> /\ equity = 100000
       /\ result # None =>
            /\ result.trade_df = <<>>
            /\ result.equity_curve = <<>> /\ result.equity_curve_ts = <<>>
            /\ result.live_position = None
            /\ \A f \in DOMAIN result.metrics : result.metrics[f] = 0

\* a run over three bars has returned; a bar carried an entry signal, but
\* none was actionable
C21_Witness ==
    /\ result # None /\ i = 3
    /\ \A k \in 1..Len(df) : ~Actionable(df_bt(df)[k])
    /\ \E k \in 1..Len(df) : MRLong(df[k]) /\ InAsia(df_bt(df)[k])
    /\ result.metrics.Trades = 0

\* C22: the live-position record is present exactly when the walk ends in
\* a position; its side and entry time are those of the open position and
\* its entry, stop and target that position's values in whole units; the
\* open position is not in the closed-trade log; and producing the
\* snapshot leaves the trade log, the equity and the metrics as they are.
C22_LivePosition ==
    result # None =>
       /\ (result.live_position # None) <=> InPosition
       /\ InPosition =>
            /\ result.live_position.position = open_trade.side
            /\ result.live_position.entry_time = open_trade.entry_time
            /\ result.live_position.entry_price = open_trade.entry_price
            /\ result.live_position.stop_price = open_trade.stop
            /\ result.live_position.tp_price = open_trade.target
            /\ \A k \in 1..Len(trade_log) :
                  trade_log[k].entry_time # open_trade.entry_time
       /\ result.trade_df = trade_log
       /\ result.metrics.Trades = Len(trade_log)
       /\ equity = 100000 + Sum(pnl_history)
       /\ 2 * Abs(result.metrics.Cum_return_pct * 1000 - (equity - 100000)) <= 1000

\* the run returned with a short open after one closed trade
C22_Witness ==
    /\ result # None
    /\ InPosition /\ Len(trade_log) = 1
    /\ result.live_position.position = "short"
    /\ result.live_position.stop_price = 3216

\* C23: the time-indexed equity curve has one point per closed trade, in
\* the order of the log; its k-th point pairs the exit time of the k-th
\* trade with the initial capital plus the pnl of the first k trades; and
\* the index-based curve is the equity of the last min(500, n) of these
\* points (the slice is checked for every length up to n + 1 as well).
C23_EquityCurves ==
    result # None =>
      LET n == Len(trade_log)
          ts == result.equity_curve_ts
          Least(a, b) == IF a < b THEN a ELSE b
          LastOf(p) == [ k \in 1..Least(p, n) |-> ts[n - Least(p, n) + k].equity ]
      IN /\ Len(ts) = n
         /\ \A k \in 1..n :
              /\ ts[k].exit_time = trade_log[k].exit_time
              /\ ts[k].equity
                   = 100000 + Sum([ j \in 1..k |-> trade_log[j].pnl ])
         /\ result.equity_curve = LastOf(500)
         /\ \A p \in 1..(n + 1) : last_points(eq_array(pnl_history), p) = LastOf(p)

\* four trades of different pnl: the curve moves at every point
C23_Witness ==
    /\ result # None
    /\ Len(result.equity_curve_ts) = 4
    /\ result.equity_curve = <<95000, 155000, 155000, 150000>>
    /\ result.equity_curve_ts[4].exit_time > result.equity_curve_ts[1].exit_time

C25_WinRateExact ==
    result # None =>
      LET m == result.metrics
          n == Len(trade_log)
          latest == CHOOSE t \in { trade_log[k].exit_time : k \in 1..n } :
                       \A k \in 1..n : trade_log[k].exit_time <= t
          In(days) == { k \in 1..n : trade_log[k].exit_time >= latest - days * 24 }
          Won(S) == Cardinality({ k \in S : trade_log[k].pnl > 0 })
      IN /\ n = 0 => /\ m.Win_rate_pct = 0 /\ m.Win_rate_7d_pct = 0
                     /\ m.Win_rate_30d_pct = 0 /\ m.Win_rate_3m_pct = 0
         /\ n > 0 => /\ m.Win_rate_pct * n = Won(1..n) * 100
                     /\ m.Win_rate_7d_pct * Cardinality(In(7)) = Won(In(7)) * 100
                     /\ m.Win_rate_30d_pct * Cardinality(In(30)) = Won(In(30)) * 100
                     /\ m.Win_rate_3m_pct * Cardinality(In(90)) = Won(In(90)) * 100

\* C26: send_telegram_message never raises; it returns False without
\* issuing a request when the bot token or the chat id is not configured,
\* returns True exactly when the POST is answered with status 200, and
\* returns False for any other status and for any exception of the request.
C26_SendNeverRaises ==
    (call # None /\ call.fn = "send_telegram_message") =>
       /\ call.out.raised = ""
       /\ call.out.returned \in {"True", "False"}
       /\ (TELEGRAM_BOT_TOKEN = "" \/ TELEGRAM_CHAT_ID = "")
             => call.out.posted = None /\ call.out.returned = "False"
       /\ (TELEGRAM_BOT_TOKEN # "" /\ TELEGRAM_CHAT_ID # "")
             => /\ call.out.posted # None
                /\ call.out.returned = "True"
                     <=> ("status" \in DOMAIN call.response /\ call.response.status = 200)

\* with a token but no chat id, a message was not posted
C26_Witness ==
    /\ call # None /\ call.fn = "send_telegram_message"
    /\ TELEGRAM_BOT_TOKEN # "" /\ TELEGRAM_CHAT_ID = ""
    /\ call.out.posted = None /\ call.out.returned = "False"

\* C27: send_position_closed_notification returns a boolean for every
\* input and never raises: False, sending nothing, for an empty
\* trade_result; for a non-empty one, also with an entry_price of 0 or
\* without an entry_price, True if the message was sent and False otherwise.
C27_ClosedNotificationTotal ==
    (call # None /\ call.fn = "send_position_closed_notification") =>
       /\ call.out.raised = ""
       /\ call.out.returned \in {"True", "False"}
       /\ call.arg = <<>> => call.out.posted = None /\ call.out.returned = "False"
       /\ call.arg # <<>> =>
             (call.out.returned = "True"
                <=> /\ TELEGRAM_BOT_TOKEN # "" /\ TELEGRAM_CHAT_ID # ""
                    /\ "status" \in DOMAIN call.response
                    /\ call.response.status = 200)

\* C28: closed trades never overlap and the log is chronological: for
\* consecutive records k and k + 1, exit_time[k] < entry_time[k + 1] <
\* exit_time[k + 1]; and a position open at the end was entered strictly
\* after the exit of the last closed trade.
C28_TradesInOrder ==
    /\ \A k \in 1..(Len(trade_log) - 1) :
          /\ trade_log[k].exit_time < trade_log[k + 1].entry_time
          /\ trade_log[k + 1].entry_time < trade_log[k + 1].exit_time
    /\ (InPosition /\ trade_log # <<>>)
          => open_trade.entry_time > Last(trade_log).exit_time

\* C29: the loss of any single closed trade is bounded by the per-trade
\* risk budget: every closed trade has pnl >= -risk_amount (5% of the
\* initial capital), whatever exit rule closed it.
C29_LossBounded ==
    \A k \in 1..Len(trade_log) : trade_log[k].pnl >= -((100000 * 5) \div 100)

\* C29 (amended): every trade closed on a bar outside the forced-exit
\* session, that is by its stop or its target, has pnl >= -risk_amount;
\* only a forced session exit, which closes at the bar's close, can lose
\* more.
C29_LossBoundedOutsideSessionExit ==
    \A k \in 1..Len(trade_log) :
       (\A h \in 15..20 : trade_log[k].exit_time % 24 # h)
          => /\ trade_log[k].pnl >= -((100000 * 5) \div 100)
             /\ trade_log[k].exit_price \in { trade_log[k].stop, trade_log[k].target }

\* a trade stopped out for the risk amount, then a trade closed by the
\* session exit below its stop for more
C29_Witness ==
    /\ Len(trade_log) = 2
    /\ trade_log[1].exit_price = trade_log[1].stop /\ trade_log[1].pnl = -5000
    /\ trade_log[2].exit_time % 24 = 15
    /\ trade_log[2].pnl < -5000

\* C30: the potential_side calculate_conditions reports for a bar agrees
\* with the engine's decision on that bar: when run_backtest has opened a
\* position on bar i, potential_side of that bar is 1 for a long and -1 for
\* a short.
C30_PotentialSideAgrees ==
    (i >= 1 /\ InPosition /\ open_trade.entry_time = r.Index) =>
       potential_side(df, i) = (IF open_trade.side = "long" THEN 1 ELSE -1)

\* C31: the running maximum of the drawdown is taken over the post-trade
\* equity values only (the initial capital is not a point of the curve):
\* a run with exactly one closed trade reports max drawdown 0 even when the
\* trade is a loss, and a loss on the first trade never contributes: with
\* no loss after the first trade the drawdown is 0 whatever the first
\* trade did.
C31_FirstTradeNoDrawdown ==
    LET n == Len(pnl_history)
        OnlyFirstMayLose == \A k \in 2..n : pnl_history[k] >= 0
    IN (n >= 1 /\ OnlyFirstMayLose) =>
          /\ max_dd(pnl_history).n = 0
          /\ max_dd(pnl_history).d = 100000 + Sum(pnl_history)
          /\ result # None => result.metrics.Max_DD_pct = 0

\* a run whose only closed trade lost the risk amount has returned
C31_Witness ==
    /\ result # None
    /\ pnl_history = <<-5000>>
    /\ result.metrics.Trades = 1
    /\ result.metrics.Max_DD_pct = 0

\* C32: after every completed run of main the persisted files describe
\* that run: trade_log.csv holds the last min(59, n) closed trades of the
\* run and equity_curve_ts.csv its n equity points, n being the Trades
\* count written to metrics.json, also when the run closed no trade and an
\* earlier run had written those files.
C32_ArtifactsDescribeRun ==
    results_dir.metrics_json # None =>
       LET n == results_dir.metrics_json.metrics.Trades
           m == IF n < 59 THEN n ELSE 59
       IN /\ n = Len(trade_log)
          /\ results_dir.trade_log_csv = SubSeq(trade_log, n - m + 1, n)
          /\ Len(results_dir.equity_curve_ts_csv) = n
          /\ \A k \in 1..n :
                /\ results_dir.equity_curve_ts_csv[k].exit_time = trade_log[k].exit_time
                /\ results_dir.equity_curve_ts_csv[k].equity
                      = 100000 + Sum(SubSeq(pnl_history, 1, k))

\* C33: fetch_btc_price and fetch_btc_klines ask Bybit first and OKX only
\* if Bybit yielded no result; they return (value, None) from the first
\* source that yields a result and (None, error) only when both fail, so
\* the returned pair never has a value and an error, and never neither.
C33_FetchFallback ==
    fetched # None =>
       LET price == fetched.fn = "fetch_btc_price"
           Missing == IF price THEN -3000000 ELSE <<>>
           Parses(t) == IF price THEN t \in {"0", "65000"} ELSE t \in {"1", "2"}
           \* the exchange answered 200 with its success code and usable data
           Yields(q) ==
               /\ q.answer.kind = "http" /\ q.answer.status = 200
               /\ q.answer.code = (IF q.source = "bybit" THEN 0 ELSE "0")
               /\ q.answer.list # <<>>
               /\ \A k \in 1..Len(q.answer.list) : Parses(q.answer.list[k])
           n == Len(fetched.queried)
           HasValue == fetched.returned.value # Missing
           HasError == fetched.returned.error # <<>>
       IN /\ fetched.queried[1].source = "bybit"
          /\ n = 2 <=> ~Yields(fetched.queried[1])
          /\ n = 2 => fetched.queried[2].source = "okx"
          /\ HasValue <=> Yields(fetched.queried[n])
          /\ HasValue <=> ~HasError

====
